---- MODULE Spec2Model ----
(***************************************************************************)
(* A model of the Sudoku solver of src/main.py: the Point and Sudoku       *)
(* dataclasses (board, availability cache, failed-sets, provenance tags)   *)
(* and the recursive solve() with its propagation and search phases.       *)
(***************************************************************************)
EXTENDS Integers, Sequences, FiniteSets, TLC

\* ------------------------------------------------------------------------
\* Program constants
\* ------------------------------------------------------------------------
Side == 9
Box == 3
Width == 81

Cells == 0 .. (Side * Side - 1)
Values == {1, 2, 3, 4, 5, 6, 7, 8, 9}
DigitChars == <<"1", "2", "3", "4", "5", "6", "7", "8", "9">>
\* a tag string of two letters
ShortTags == <<"a", "b">>

\* line 183: the tag string, indexed by the number of failed values
GuessTags == <<"a", "b", "c", "e", "d", "f", "g", "h", "i", "j", "k">>

\* ------------------------------------------------------------------------
\* Bounds of the model
\* ------------------------------------------------------------------------
MaxBlankRows == 3
MaxBlankCells == 4
MaxShort == 2
MaxOps == 4
MaxBoards == 2

\* ------------------------------------------------------------------------
\* class Point
\* ------------------------------------------------------------------------
Point(row, col) ==
    [row |-> row, col |-> col, value |-> 0, failed |-> {}, _available |-> {}, source |-> " "]

bigrow(point) == point.row \div Box
bigcol(point) == point.col \div Box

\* ------------------------------------------------------------------------
\* class Sudoku: construction from the starting string
\* ------------------------------------------------------------------------
\* f"{startpos:81}": left-aligned, padded with blanks to 81 characters
Padded(str) ==
    IF Len(str) >= Width THEN str
    ELSE str \o [i \in 1 .. (Width - Len(str)) |-> " "]

\* int(c) if c in "123456789" else 0
CharValue(c) ==
    IF \E d \in 1 .. 9 : DigitChars[d] = c
    THEN CHOOSE d \in 1 .. 9 : DigitChars[d] = c
    ELSE 0

PostInit(str) ==
    LET blank == [p \in Cells |-> Point(p \div Side, p % Side)]
    IN  IF str # <<>>
        THEN [p \in Cells |->
                [blank[p] EXCEPT
                    !.value = CharValue(Padded(str)[blank[p].col + 9 * blank[p].row + 1])]]
        ELSE [blank EXCEPT ![4 + 9 * 4].value = 1]

\* ------------------------------------------------------------------------
\* class Sudoku: queries.  s is the points list, point an index into it.
\* ------------------------------------------------------------------------
onrow(s, point) ==
    {s[q].value : q \in {q \in Cells : s[q].value # 0 /\ s[q].row = s[point].row}}

\* oncol that looks at the row in place of the column
oncolAsRow(s, point) ==
    {s[q].value : q \in {q \in Cells : s[q].value # 0 /\ s[q].row = s[point].row}}

oncol(s, point) ==
    {s[q].value : q \in {q \in Cells : s[q].value # 0 /\ s[q].col = s[point].col}}

\* in3x3 with the column of the block forgotten
in3x3Band(s, point) ==
    {s[q].value : q \in {q \in Cells : s[q].value # 0 /\ bigrow(s[q]) = bigrow(s[point])}}

in3x3(s, point) ==
    {s[q].value : q \in {q \in Cells : /\ s[q].value # 0
                                       /\ bigrow(s[q]) = bigrow(s[point])
                                       /\ bigcol(s[q]) = bigcol(s[point])}}

\* used with the block forgotten
usedNoBlock(s, point) ==
    oncol(s, point) \cup onrow(s, point) \cup s[point].failed

used(s, point) ==
    oncol(s, point) \cup onrow(s, point) \cup in3x3(s, point) \cup s[point].failed

\* available(): the value returned ...
available(s, point) ==
    IF s[point].value = 0 /\ s[point]._available = {}
    THEN Values \ used(s, point)
    ELSE s[point]._available

\* ... and the board it leaves behind (the cache of the point is stored)
availableStore(s, point) ==
    [s EXCEPT ![point]._available = available(s, point)]

\* deduce() that looks only at the points after this one in the points list
deduceLater(s, point) ==
    LET others == {p \in Cells : p > point /\ s[p].value = 0}
        deducerow == UNION {available(s, p) : p \in {p \in others : s[point].row = s[p].row}}
        deducecol == UNION {available(s, p) : p \in {p \in others : /\ s[point].row # s[p].row
                                                                    /\ s[point].col = s[p].col}}
        byrow == available(s, point) \ deducerow
        bycol == available(s, point) \ deducecol
    IN  IF Cardinality(byrow) = 1 THEN byrow
        ELSE IF Cardinality(bycol) = 1 THEN bycol
        ELSE {}

\* deduce() with the test of the commented line 108: row and column must agree
deduceBoth(s, point) ==
    LET others == {p \in Cells : s[point] # s[p] /\ s[p].value = 0}
        deducerow == UNION {available(s, p) : p \in {p \in others : s[point].row = s[p].row}}
        deducecol == UNION {available(s, p) : p \in {p \in others : /\ s[point].row # s[p].row
                                                                    /\ s[point].col = s[p].col}}
        byrow == available(s, point) \ deducerow
        bycol == available(s, point) \ deducecol
    IN  IF Cardinality(byrow) = 1 /\ byrow = bycol THEN byrow ELSE {}

\* deduce(): the value returned
deduce(s, point) ==
    LET others == {p \in Cells : s[point] # s[p] /\ s[p].value = 0}
        deducerow == UNION {available(s, p) : p \in {p \in others : s[point].row = s[p].row}}
        deducecol == UNION {available(s, p) : p \in {p \in others : /\ s[point].row # s[p].row
                                                                    /\ s[point].col = s[p].col}}
        byrow == available(s, point) \ deducerow
        bycol == available(s, point) \ deducecol
    IN  IF Cardinality(byrow) = 1 THEN byrow
        ELSE IF Cardinality(bycol) = 1 THEN bycol
        ELSE {}

\* the points list in row-major order, as indices
PointOrder == [i \in 1 .. (Side * Side) |-> i - 1]

\* deduced(): the list returned
deducedTest(s, p) ==
    s[p].value = 0 /\ Cardinality(available(s, p)) > 1 /\ deduce(s, p) # {}

deduced(s) == SelectSeq(PointOrder, LAMBDA p : deducedTest(s, p))

\* the list left as it is, without the sort
unsortedFrom(s, ans, k) == ans

\* sorted(ans, key): a stable sort by a key in 0 .. 9
RECURSIVE sortedFrom(_, _, _)
sortedFrom(s, ans, k) ==
    IF k > Side THEN <<>>
    ELSE SelectSeq(ans, LAMBDA p : Cardinality(available(s, p)) = k)
            \o sortedFrom(s, ans, k + 1)

\* todo() with the sort descending
todoReversed(s) ==
    LET ans == sortedFrom(s, SelectSeq(PointOrder, LAMBDA p : s[p].value = 0), 0)
    IN  [k \in 1 .. Len(ans) |-> ans[Len(ans) + 1 - k]]

\* todo(): the list returned
todo(s) == sortedFrom(s, SelectSeq(PointOrder, LAMBDA p : s[p].value = 0), 0)

\* todo() and deduced() call available() on every point without a value:
\* the board they leave behind
\* (f @@ <<>> is f, tabulated once)
todoStore(s) ==
    [p \in Cells |-> IF s[p].value = 0 THEN availableStore(s, p)[p] ELSE s[p]] @@ <<>>

clearcache(s) == [p \in Cells |-> [s[p] EXCEPT !._available = {}]]

\* setpoint without clearcache
setpointKeepCache(s, point, value, source) ==
    [s EXCEPT ![point].value = value, ![point].source = source]

setpoint(s, point, value, source) ==
    clearcache([s EXCEPT ![point].value = value, ![point].source = source])

\* failed() that records nothing
failedForget(s, point, value) == clearcache(s)

\* failed(): the board part (the class counter fails is advanced by the caller's action)
failed(s, point, value) ==
    clearcache([s EXCEPT ![point].failed = @ \cup {value}])

\* tokenize(source=False) and tokenize(source=True)
tokenize(s) ==
    [i \in 1 .. (Side * Side) |->
        IF s[i - 1].value = 0 THEN "." ELSE DigitChars[s[i - 1].value]]

tokenizeSource(s) == [i \in 1 .. (Side * Side) |-> s[i - 1].source]

\* ------------------------------------------------------------------------
\* Starting strings of the model: a solved grid and a grid with repeated
\* values, with some cells of a pool blanked or the end of the string cut
\* ------------------------------------------------------------------------
SolvedGrid ==
    <<3, 4, 6, 1, 2, 5, 7, 8, 9,
      5, 8, 9, 6, 3, 7, 1, 2, 4,
      1, 2, 7, 8, 4, 9, 3, 5, 6,
      8, 3, 1, 4, 5, 2, 6, 9, 7,
      9, 6, 5, 7, 1, 3, 8, 4, 2,
      2, 7, 4, 9, 6, 8, 5, 1, 3,
      6, 9, 8, 2, 7, 1, 4, 3, 5,
      7, 5, 2, 3, 8, 4, 9, 6, 1,
      4, 1, 3, 5, 9, 6, 2, 7, 8>>

RepeatGrid ==
    <<1, 2, 3, 4, 1, 5, 6, 7, 8,
      9, 9, 9, 9, 9, 5, 6, 7, 8,
      9, 9, 9, 9, 9, 5, 6, 7, 8,
      9, 9, 9, 9, 9, 5, 6, 7, 8,
      9, 9, 9, 9, 9, 5, 6, 7, 8,
      9, 9, 9, 9, 9, 5, 6, 7, 8,
      9, 9, 9, 9, 9, 5, 6, 7, 8,
      9, 9, 9, 9, 9, 5, 6, 7, 8,
      9, 9, 9, 9, 9, 5, 6, 7, 8>>

RowPool == {0, 4, 5, 6}
RepeatPool == {0, 1, 2, 3, 4}

BlankChars == <<".", " ", "0">>

Render(grid, blanks, short) ==
    [i \in 1 .. (Width - short) |->
        IF (i - 1) \in blanks THEN BlankChars[(i % 3) + 1] ELSE DigitChars[grid[i]]]

RowCells(rows) == {p \in Cells : (p \div Side) \in rows}

StartStrings ==
    {Render(SolvedGrid, RowCells(rows), 0) :
        rows \in {r \in SUBSET RowPool : Cardinality(r) <= MaxBlankRows}}
    \cup {Render(RepeatGrid, b, 0) :
        b \in {c \in SUBSET RepeatPool : Cardinality(c) <= MaxBlankCells}}
    \cup {Render(SolvedGrid, {}, k) : k \in 1 .. MaxShort}

\* the default position, and the grid with repeated values with all its pool blank
WideStrings == {<<>>, Render(RepeatGrid, RepeatPool, 0)}

\* ------------------------------------------------------------------------
\* State
\* ------------------------------------------------------------------------
VARIABLES
    startpos,    \* Sudoku.startpos of the root board, a sequence of characters
    fixed,       \* TRUE: sets are iterated in ascending order; FALSE: in any order
    stack,       \* the active solve() calls, the root call first
    result,      \* the value returned by the solve() call that returned last
    returned,    \* the grid that call was entered with
    thinks, guesses, deductions, fails, maxlevel,   \* the class counters of Sudoku
    output,      \* the completion reports printed so far
    run,         \* which run on the starting string this is
    first,       \* what the first run printed and returned
    boards,      \* boards a caller of the Sudoku methods holds: the first and its deep copies
    log,         \* the failed(point, value) calls made on each of those boards, copies included
    ops          \* the number of method calls made on those boards

vars == <<startpos, fixed, stack, result, returned, thinks, guesses, deductions, fails,
          maxlevel, output, run, first, boards, log, ops>>

caller == <<boards, log, ops>>

counters == <<thinks, guesses, deductions, fails, maxlevel>>

\* an iteration order that differs from one run to the next
iterPerRun(set) ==
    IF run = 1 THEN {v \in set : \A w \in set : v <= w}
    ELSE {v \in set : \A w \in set : v >= w}

\* next(iter(available)): the elements a set can yield first
iterFirst(set) ==
    IF fixed THEN {v \in set : \A w \in set : v <= w} ELSE set

\* a solve() call: its board s, its level, its locals and where it stands;
\* called is the grid the call was entered with
Frame(s, level) ==
    [s |-> s, level |-> level, pc |-> "enter", todo |-> -1, use |-> 0,
     called |-> tokenize(s)]

Top == stack[Len(stack)]
Running == stack # <<>>
At(pc) == Running /\ Top.pc = pc

SetTop(frame) == [stack EXCEPT ![Len(stack)] = frame]
Pop == SubSeq(stack, 1, Len(stack) - 1)

\* Sudoku(startpos) with the class counters at zero, and solve(s, 0) called
NewRun(str) ==
    /\ startpos = str
    /\ stack = <<Frame(PostInit(str), 0)>>
    /\ result = "none"
    /\ returned = <<>>
    /\ thinks = 0 /\ guesses = 0 /\ deductions = 0 /\ fails = 0 /\ maxlevel = 0
    /\ output = <<>>
    /\ boards = <<>> /\ log = {} /\ ops = 0

Init ==
    /\ \E str \in StartStrings : NewRun(str)
    /\ fixed = FALSE
    /\ run = 1
    /\ first = <<>>

InitOrdered ==
    /\ \E str \in StartStrings \cup WideStrings : NewRun(str)
    /\ fixed = TRUE
    /\ run = 1
    /\ first = <<>>

\* ------------------------------------------------------------------------
\* solve(s, level)
\* ------------------------------------------------------------------------
\* the entry that stores the level without the max
EnterLast ==
    /\ At("enter")
    /\ maxlevel' = Top.level
    /\ stack' = SetTop([Top EXCEPT !.pc = "known"])
    /\ UNCHANGED <<startpos, fixed, result, returned, thinks, guesses, deductions,
                   fails, output, run, first, caller>>

\* line 158
Enter ==
    /\ At("enter")
    /\ maxlevel' = IF Top.level > maxlevel THEN Top.level ELSE maxlevel
    /\ stack' = SetTop([Top EXCEPT !.pc = "known"])
    /\ UNCHANGED <<startpos, fixed, result, returned, thinks, guesses, deductions,
                   fails, output, run, first, caller>>

\* the test of the first loop, on the board s and the list ans that s.todo() leaves
KnownTest(s, ans) ==
    /\ ans # <<>>
    /\ \/ Cardinality(available(s, ans[1])) = 1
       \/ deduced(s) # <<>>

\* lines 161-166
Think ==
    /\ At("known")
    /\ \E s \in {todoStore(Top.s)} : \E ans \in {todo(s)} :
           /\ KnownTest(s, ans)
           /\ Cardinality(available(s, ans[1])) = 1
           /\ \E value \in iterFirst(available(s, ans[1])) :
                stack' = SetTop([Top EXCEPT !.s = setpoint(s, ans[1], value, "="),
                                            !.todo = ans[1]])
    /\ thinks' = thinks + 1
    /\ UNCHANGED <<startpos, fixed, result, returned, guesses, deductions, fails,
                   maxlevel, output, run, first, caller>>

\* the line deduction assigned to the cell of the iteration before
DeduceStale ==
    /\ At("known")
    /\ \E s \in {todoStore(Top.s)} : \E ans \in {todo(s)} :
           /\ KnownTest(s, ans)
           /\ Cardinality(available(s, ans[1])) # 1
           /\ \E point \in {IF Top.todo \in Cells THEN Top.todo ELSE deduced(s)[1]} :
                \E value \in iterFirst(deduce(s, deduced(s)[1])) :
                    stack' = SetTop([Top EXCEPT !.s = setpoint(s, point, value, "*"),
                                                !.todo = point])
    /\ deductions' = deductions + 1
    /\ UNCHANGED <<startpos, fixed, result, returned, thinks, guesses, fails,
                   maxlevel, output, run, first, caller>>

\* the line deduction tried before the forced single
DeduceEager ==
    /\ At("known")
    /\ \E s \in {todoStore(Top.s)} : \E ans \in {todo(s)} :
           /\ KnownTest(s, ans)
           /\ deduced(s) # <<>>
           /\ \E point \in {deduced(s)[1]} : \E value \in iterFirst(deduce(s, point)) :
                stack' = SetTop([Top EXCEPT !.s = setpoint(s, point, value, "*"),
                                            !.todo = point])
    /\ deductions' = deductions + 1
    /\ UNCHANGED <<startpos, fixed, result, returned, thinks, guesses, fails,
                   maxlevel, output, run, first, caller>>

\* lines 161, 168-173
Deduce ==
    /\ At("known")
    /\ \E s \in {todoStore(Top.s)} : \E ans \in {todo(s)} :
           /\ KnownTest(s, ans)
           /\ Cardinality(available(s, ans[1])) # 1
           /\ \E point \in {deduced(s)[1]} : \E value \in iterFirst(deduce(s, point)) :
                stack' = SetTop([Top EXCEPT !.s = setpoint(s, point, value, "*"),
                                            !.todo = point])
    /\ deductions' = deductions + 1
    /\ UNCHANGED <<startpos, fixed, result, returned, thinks, guesses, fails,
                   maxlevel, output, run, first, caller>>

\* line 161, the test failing: on to the second loop
KnownDone ==
    /\ At("known")
    /\ \E s \in {todoStore(Top.s)} : \E ans \in {todo(s)} :
           /\ ~KnownTest(s, ans)
           /\ stack' = SetTop([Top EXCEPT !.s = s, !.pc = "guess"])
    /\ UNCHANGED <<startpos, fixed, result, returned, counters, output, run, first, caller>>

\* nextlevel a second name for s instead of a copy: s follows nextlevel
callerBoardShared(s, nextlevel) == nextlevel

\* line 181: nextlevel is a deepcopy of s, so s stays as it is whatever nextlevel becomes
callerBoard(s, nextlevel) == s

\* lines 176-189: a guess, made on a deep copy, and the recursive call
Guess ==
    /\ At("guess")
    /\ \E s \in {todoStore(Top.s)} : \E ans \in {todo(s)} :
           /\ ans # <<>>
           /\ available(s, ans[1]) # {}
           /\ \E use \in iterFirst(available(s, ans[1])) :
                \E nextlevel \in {s} : \E nexttodo \in {todo(nextlevel)[1]} :
                    LET tried == Cardinality(nextlevel[nexttodo].failed)
                    IN  IF tried < Len(GuessTags)
                        THEN /\ stack' = Append(
                                    SetTop([Top EXCEPT
                                        !.s = callerBoard(s, setpoint(nextlevel, nexttodo, use,
                                                                      GuessTags[tried + 1])),
                                        !.todo = ans[1], !.use = use, !.pc = "call"]),
                                    Frame(setpoint(nextlevel, nexttodo, use,
                                                   GuessTags[tried + 1]),
                                          Top.level + 1))
                             /\ guesses' = guesses + 1
                             /\ result' = result
                        ELSE \* IndexError, raised through every caller
                             /\ stack' = <<>>
                             /\ guesses' = guesses
                             /\ result' = "IndexError"
    /\ UNCHANGED <<startpos, fixed, returned, thinks, deductions, fails, maxlevel,
                   output, run, first, caller>>

\* the dead end without its return: the loop spins
DeadEndSpin ==
    /\ At("guess")
    /\ \E s \in {todoStore(Top.s)} : \E ans \in {todo(s)} :
           /\ ans # <<>>
           /\ available(s, ans[1]) = {}
    /\ UNCHANGED vars

\* lines 176-179, 194-196: no value left to try
DeadEnd ==
    /\ At("guess")
    /\ \E s \in {todoStore(Top.s)} : \E ans \in {todo(s)} :
           /\ ans # <<>>
           /\ available(s, ans[1]) = {}
    /\ stack' = Pop
    /\ result' = "False"
    /\ returned' = Top.called
    /\ UNCHANGED <<startpos, fixed, counters, output, run, first, caller>>

\* lines 176, 198-205: every point has a value
Solved ==
    /\ At("guess")
    /\ todo(Top.s) = <<>>
    /\ output' = Append(output,
            [grid |-> tokenize(Top.s), tags |-> tokenizeSource(Top.s),
             thinks |-> thinks, deductions |-> deductions, guesses |-> guesses,
             fails |-> fails, maxlevel |-> maxlevel])
    /\ stack' = Pop
    /\ result' = "True"
    /\ returned' = Top.called
    /\ UNCHANGED <<startpos, fixed, counters, run, first, caller>>

\* the recursive call returned True and the loop goes on
SuccessGoOn ==
    /\ At("call")
    /\ result = "True"
    /\ stack' = SetTop([Top EXCEPT !.pc = "guess"])
    /\ UNCHANGED <<startpos, fixed, result, returned, counters, output, run, first, caller>>

\* lines 189-190: the recursive call returned True
Success ==
    /\ At("call")
    /\ result = "True"
    /\ stack' = Pop
    /\ returned' = Top.called
    /\ UNCHANGED <<startpos, fixed, result, counters, output, run, first, caller>>

\* the failure recorded without its count
FailedUncounted ==
    /\ At("call")
    /\ result = "False"
    /\ stack' = SetTop([Top EXCEPT !.s = failed(Top.s, Top.todo, Top.use), !.pc = "guess"])
    /\ result' = "none"
    /\ UNCHANGED <<startpos, fixed, returned, counters, output, run, first, caller>>

\* lines 189, 191-193: the recursive call returned False
Failed ==
    /\ At("call")
    /\ result = "False"
    /\ stack' = SetTop([Top EXCEPT !.s = failed(Top.s, Top.todo, Top.use), !.pc = "guess"])
    /\ fails' = fails + 1
    /\ result' = "none"
    /\ UNCHANGED <<startpos, fixed, returned, thinks, guesses, deductions, maxlevel,
                   output, run, first, caller>>

Next ==
    \/ Enter
    \/ Think
    \/ Deduce
    \/ KnownDone
    \/ Guess
    \/ DeadEnd
    \/ Solved
    \/ Success
    \/ Failed

Spec == Init /\ [][Next]_vars

\* the same starting string solved again, the class counters reset (line 36)
Rerun ==
    /\ ~Running
    /\ fixed
    /\ run = 1
    /\ run' = 2
    /\ first' = [output |-> output, result |-> result]
    /\ stack' = <<Frame(PostInit(startpos), 0)>>
    /\ result' = "none"
    /\ returned' = <<>>
    /\ thinks' = 0 /\ guesses' = 0 /\ deductions' = 0 /\ fails' = 0 /\ maxlevel' = 0
    /\ output' = <<>>
    /\ UNCHANGED <<startpos, fixed, caller>>

NextOrdered ==
    \/ Next
    \/ Rerun

SpecOrdered == InitOrdered /\ [][NextOrdered]_vars

\* every starting string of the model, a call that can take a step takes it
FairSpec == (Init \/ InitOrdered) /\ [][NextOrdered]_vars /\ WF_vars(NextOrdered)

\* ------------------------------------------------------------------------
\* The Sudoku methods called directly, in any order, on a board and its copies
\* ------------------------------------------------------------------------
CallerCells == {0, 1, 9}
CallerValues == {1, 2}

InitBoard ==
    /\ startpos = <<>>
    /\ boards = <<PostInit(<<>>)>>
    /\ log = {}
    /\ ops = 0
    /\ stack = <<>>
    /\ result = "none"
    /\ returned = <<>>
    /\ thinks = 0 /\ guesses = 0 /\ deductions = 0 /\ fails = 0 /\ maxlevel = 0
    /\ output = <<>>
    /\ fixed = FALSE
    /\ run = 1
    /\ first = <<>>

solver == <<startpos, fixed, stack, result, returned, thinks, guesses, deductions,
            maxlevel, output, run, first>>

\* s.available(point)
CallAvailable ==
    /\ ops < MaxOps
    /\ \E b \in 1 .. Len(boards) : \E point \in CallerCells :
            boards' = [boards EXCEPT ![b] = availableStore(boards[b], point)]
    /\ ops' = ops + 1
    /\ UNCHANGED <<solver, fails, log>>

\* s.todo()
CallTodo ==
    /\ ops < MaxOps
    /\ \E b \in 1 .. Len(boards) :
            boards' = [boards EXCEPT ![b] = todoStore(boards[b])]
    /\ ops' = ops + 1
    /\ UNCHANGED <<solver, fails, log>>

\* s.setpoint(point, value, '=')
CallSetpoint ==
    /\ ops < MaxOps
    /\ \E b \in 1 .. Len(boards) : \E point \in CallerCells : \E value \in CallerValues :
            boards' = [boards EXCEPT ![b] = setpoint(boards[b], point, value, "=")]
    /\ ops' = ops + 1
    /\ UNCHANGED <<solver, fails, log>>

\* s.failed(point, value)
CallFailed ==
    /\ ops < MaxOps
    /\ \E b \in 1 .. Len(boards) : \E point \in CallerCells : \E value \in CallerValues :
            /\ boards' = [boards EXCEPT ![b] = failed(boards[b], point, value)]
            /\ log' = log \cup {<<b, point, value>>}
    /\ fails' = fails + 1
    /\ ops' = ops + 1
    /\ UNCHANGED solver

\* deepcopy(s)
CallDeepcopy ==
    /\ ops < MaxOps
    /\ Len(boards) < MaxBoards
    /\ \E b \in 1 .. Len(boards) :
            /\ boards' = Append(boards, boards[b])
            /\ log' = log \cup {<<Len(boards) + 1, e[2], e[3]>> : e \in {f \in log : f[1] = b}}
    /\ ops' = ops + 1
    /\ UNCHANGED <<solver, fails>>

NextBoard ==
    \/ CallAvailable
    \/ CallTodo
    \/ CallSetpoint
    \/ CallFailed
    \/ CallDeepcopy

\* the boards of the solver and the boards of a direct caller
SpecBoard == (Init \/ InitBoard) /\ [][Next \/ NextBoard]_vars

\* ------------------------------------------------------------------------
\* Grids, units and completions, for the properties below
\* ------------------------------------------------------------------------
\* the values of a grid written as 81 characters
GridValues(chars) == [p \in Cells |-> CharValue(chars[p + 1])] @@ <<>>

StartValues == [p \in Cells |-> PostInit(startpos)[p].value] @@ <<>>

Units ==
    {{p \in Cells : p \div Side = r} : r \in 0 .. (Side - 1)}
    \cup {{p \in Cells : p % Side = c} : c \in 0 .. (Side - 1)}
    \cup {{p \in Cells : (p \div Side) \div Box = br /\ (p % Side) \div Box = bc} :
            <<br, bc>> \in (0 .. (Box - 1)) \X (0 .. (Box - 1))}

PeerCells ==
    [p \in Cells |-> {q \in Cells \ {p} : \E u \in Units : p \in u /\ q \in u}] @@ <<>>

\* each row, column and block holds each value exactly once
ValidGrid(g) ==
    \A u \in Units : \A v \in Values : Cardinality({p \in u : g[p] = v}) = 1

\* no row, column or block holds a value twice
NoRepeat(g) ==
    \A u \in Units : \A v \in Values : Cardinality({p \in u : g[p] = v}) <= 1

Candidates(g, p) == Values \ {g[q] : q \in PeerCells[p]}

\* a necessary condition for a completion: in each unit each value is placed
\* or has a cell left that can take it
Placeable(g) ==
    \A u \in Units : \A v \in Values :
        \E p \in u : g[p] = v \/ (g[p] = 0 /\ v \in Candidates(g, p))

\* g can be completed to a valid grid: a search over the cells without a value,
\* a cell with the fewest candidates first
RECURSIVE Completable(_)
Completable(g) ==
    LET open == {p \in Cells : g[p] = 0}
        count == [p \in open |-> Cardinality(Candidates(g, p))] @@ <<>>
        least == CHOOSE p \in open : \A q \in open : count[p] <= count[q]
    IN  IF open = {} THEN ValidGrid(g)
        ELSE /\ Placeable(g)
             /\ \E v \in Candidates(g, least) : Completable([g EXCEPT ![least] = v])

Finished == ~Running /\ result # "none"

\* ------------------------------------------------------------------------
\* C1 (as stated): every grid of a completion report, for any starting string,
\* has each value exactly once in each row, column and block.
\* ------------------------------------------------------------------------
C1_ValidityAnyString ==
    \A i \in 1 .. Len(output) : ValidGrid(GridValues(output[i].grid))

\* C1 (amended): when the starting string repeats no value in a row, column or
\* block, every grid of a completion report has each value exactly once in each
\* row, column and block.
C1_Validity ==
    NoRepeat(StartValues) =>
        \A i \in 1 .. Len(output) : ValidGrid(GridValues(output[i].grid))

\* a report reached through guesses of which some failed, from a string without repeats
C1_Witness ==
    /\ output # <<>>
    /\ NoRepeat(StartValues)
    /\ fails > 0
    /\ deductions > 0
    /\ ValidGrid(GridValues(output[1].grid))

\* ------------------------------------------------------------------------
\* C2: a solve call returns failure only when the grid it was called with has no
\* valid completion; solve(board, 0) on a starting grid with a valid completion
\* returns success.
\* ------------------------------------------------------------------------
C2_Completeness ==
    /\ result = "False" => ~Completable(GridValues(returned))
    /\ (Finished /\ Completable(StartValues)) => result = "True"

\* failures of both kinds: a recursive call of a string without repeats, and a root call
C2_WitnessChild ==
    /\ result = "False"
    /\ Running
    /\ NoRepeat(StartValues)

\* ------------------------------------------------------------------------
\* C3: for every starting string solve(board, 0) eventually returns success or
\* failure: while a call is active, the run goes on to a state where no call
\* is active and the root call has returned True or False.
\* ------------------------------------------------------------------------
C3_Termination ==
    Running ~> (Finished /\ result \in {"True", "False"})

\* the default position (centre cell 1, all else blank) solved
C3_Witness ==
    /\ Finished
    /\ startpos = <<>>
    /\ result = "True"
    /\ guesses > 0

\* ------------------------------------------------------------------------
\* C4: on every board (of the solver's calls, or held by a caller of setpoint,
\* failed and deepcopy), an unset cell with a non-empty cache has as cache
\* {1..9} minus the values of its row, column and block and its failed-set.
\* ------------------------------------------------------------------------
AllBoards == {stack[i].s : i \in 1 .. Len(stack)} \cup {boards[b] : b \in 1 .. Len(boards)}

Coherent(s) ==
    \A p \in Cells :
        (s[p].value = 0 /\ s[p]._available # {}) =>
            s[p]._available = Values \ (LET row == {s[q].value : q \in {q \in Cells : q \div Side = p \div Side}}
                                            col == {s[q].value : q \in {q \in Cells : q % Side = p % Side}}
                                            blk == {s[q].value : q \in PeerCells[p] \cup {p}}
                                        IN  row \cup col \cup blk \cup s[p].failed)

C4_CacheCoherence == \A s \in AllBoards : Coherent(s)

\* a cache filled after a mutation, with a content other than before the mutation
C4_Witness ==
    \E b \in 1 .. Len(boards) : \E p \in CallerCells :
        /\ boards[b][p].value = 0
        /\ boards[b][p]._available # {}
        /\ boards[b][p]._available # available(PostInit(startpos), p)

\* ------------------------------------------------------------------------
\* C5: once failed(cell, v) was called on a board, available(cell) on that board
\* and on every board deep-copied from it afterwards does not contain v.
\* ------------------------------------------------------------------------
C5_FailurePersistence ==
    \A e \in log : e[3] \notin available(boards[e[1]], e[2])

\* a copy made after a failed() call, with a later setpoint on another cell of the copy
C5_Witness ==
    \E e \in log : \E q \in CallerCells :
        /\ e[1] = 2
        /\ q # e[2]
        /\ boards[2][e[2]].value = 0
        /\ boards[2][q].value # 0
        /\ boards[1][q].value = 0

\* ------------------------------------------------------------------------
\* C6: on every board of a solve call, for every cell P that deduced() returns,
\* the value of deduce(P) is not set in P's row, column or block, and no valid
\* completion of the board places another value at P.
\* ------------------------------------------------------------------------
BoardValues(s) == [p \in Cells |-> s[p].value] @@ <<>>

SoundAt(s, P) ==
    \E g \in {BoardValues(s)} :
        /\ Cardinality(deduce(s, P)) = 1
        /\ \A v \in deduce(s, P) :
            /\ v \notin {g[q] : q \in PeerCells[P]}
            /\ NoRepeat(g) =>
                \A w \in Candidates(g, P) \ {v} : ~Completable([g EXCEPT ![P] = w])

C6_DeductionSoundness ==
    \A i \in 1 .. Len(stack) :
        \E s \in {todoStore(stack[i].s)} :
            \A k \in 1 .. Len(deduced(s)) : SoundAt(s, deduced(s)[k])

\* a deduction made by the first loop on a board that has a valid completion,
\* for a cell that had other candidates
C6_Witness ==
    /\ At("known")
    /\ \E s \in {todoStore(Top.s)} : \E ans \in {todo(s)} :
           /\ KnownTest(s, ans)
           /\ Cardinality(available(s, ans[1])) # 1
           /\ Completable(BoardValues(s))
           /\ Cardinality(Candidates(BoardValues(s), deduced(s)[1])) > 1

\* ------------------------------------------------------------------------
\* C7 (as stated): a guess for a cell with k failed values recorded is tagged in
\* the copy with the (k+1)-th letter of the alphabet: a, b, c, d, e, ...
\* ------------------------------------------------------------------------
Alphabet == <<"a", "b", "c", "d", "e", "f", "g", "h", "i">>

C7_GuessTag ==
    \A i \in 2 .. Len(stack) :
        stack[i - 1].pc = "call" =>
            \E cell \in {stack[i - 1].todo} :
                stack[i].s[cell].source =
                    Alphabet[Cardinality(stack[i - 1].s[cell].failed) + 1]

\* ------------------------------------------------------------------------
\* C8: while a recursive call runs on the copy, the board of the calling solve
\* does not change; when the call has returned failure, the calling board gets
\* the tried value added to the failed-set of the guessed cell and its caches
\* cleared, and nothing else; no step of the second loop changes a value or a
\* provenance tag of the board of its call.
\* ------------------------------------------------------------------------
Assigned(s) == [p \in Cells |-> <<s[p].value, s[p].source>>] @@ <<>>

FailureRecorded(before, after) ==
    /\ after.s = [p \in Cells |->
                    [before.s[p] EXCEPT !._available = {},
                                        !.failed = IF p = before.todo
                                                   THEN @ \cup {before.use} ELSE @]]
    /\ after.level = before.level

C8_Step ==
    \A i \in 1 .. Len(stack) :
        (i <= Len(stack') /\ stack[i].pc \in {"guess", "call"}) =>
            /\ Assigned(stack'[i].s) = Assigned(stack[i].s)
            /\ (stack[i].pc = "call" /\ i < Len(stack)) => stack'[i] = stack[i]
            /\ (stack[i].pc = "call" /\ i = Len(stack)) =>
                    FailureRecorded(stack[i], stack'[i])

C8_BranchIsolation == [][C8_Step]_vars

\* a failure recorded on a calling board whose call had itself a caller
C8_Witness ==
    /\ Len(stack) >= 2
    /\ Top.pc = "guess"
    /\ Top.todo \in Cells
    /\ Top.s[Top.todo].failed # {}
    /\ Top.s[Top.todo].value = 0
    /\ Top.use \in Top.s[Top.todo].failed

\* ------------------------------------------------------------------------
\* C9: with candidates iterated in ascending order and the counters reset, a
\* second run of solve(board, 0) on the same starting string ends with the
\* same final grid and the same return value as the first.
\* ------------------------------------------------------------------------
Grids(reports) == [i \in 1 .. Len(reports) |-> reports[i].grid]

C10_Reports ==
    /\ Len(output) <= 1
    /\ Finished => (result = "True" <=> Len(output) = 1)
    /\ (Running /\ result = "True") => (Top.pc = "call" /\ Len(output) = 1)

C10_Return ==
    (Running /\ result = "True") =>
        /\ stack' = Pop
        /\ result' = "True"
        /\ UNCHANGED <<counters, output>>

C10_SuccessPropagation == []C10_Reports /\ [][C10_Return]_vars

\* success handed up through two enclosing calls after failed guesses
C10_Witness ==
    /\ Finished
    /\ result = "True"
    /\ Len(output) = 1
    /\ maxlevel >= 2
    /\ fails > 0
    /\ output[1].guesses = guesses
    /\ output[1].fails = fails

\* ------------------------------------------------------------------------
\* C11: on every board of a solve call todo() lists exactly the cells without a
\* value, each once, by ascending number of available values and, among equal
\* numbers, by ascending row-major index; the cell a call has guessed on is the
\* first of that list.
\* ------------------------------------------------------------------------
Unset(s) == {p \in Cells : s[p].value = 0}

Before(s, p, q) ==
    \/ Cardinality(available(s, p)) < Cardinality(available(s, q))
    \/ Cardinality(available(s, p)) = Cardinality(available(s, q)) /\ p < q

MostConstrainedFirst(s, ans) ==
    /\ {ans[k] : k \in 1 .. Len(ans)} = Unset(s)
    /\ Len(ans) = Cardinality(Unset(s))
    /\ \A k \in 1 .. (Len(ans) - 1) : Before(s, ans[k], ans[k + 1])

C11_MostConstrained ==
    \A i \in 1 .. Len(stack) :
        \E s \in {todoStore(stack[i].s)} : \E ans \in {todo(s)} :
            /\ MostConstrainedFirst(s, ans)
            /\ stack[i].pc = "call" =>
                    /\ stack[i].todo = ans[1]
                    /\ \A q \in Unset(s) \ {ans[1]} : Before(s, ans[1], q)

\* a guess on a cell that is not the first cell without a value, with another
\* cell of as many available values after it
C11_Witness ==
    /\ Running
    /\ Top.pc = "call"
    /\ \E q \in Unset(Top.s) : q < Top.todo
    /\ \E q \in Unset(Top.s) :
            /\ q > Top.todo
            /\ Cardinality(available(Top.s, q)) = Cardinality(available(Top.s, Top.todo))

\* ------------------------------------------------------------------------
\* C12: in the first loop a line deduction is applied only when the first cell
\* of todo() does not have exactly one available value, and a forced single is
\* applied when it has; when the loop ends with cells left without a value,
\* either the first cell of todo() has no available value, or every cell
\* without a value has at least two and deduced() is empty.
\* ------------------------------------------------------------------------
Fixpoint(s) ==
    \E ans \in {todo(s)} :
        ans # <<>> =>
            \/ available(s, ans[1]) = {}
            \/ /\ \A p \in Unset(s) : Cardinality(available(s, p)) >= 2
               /\ deduced(s) = <<>>

C12_Step ==
    At("known") =>
        \E s \in {todoStore(Top.s)} : \E ans \in {todo(s)} :
            /\ deductions' # deductions =>
                    ans # <<>> /\ Cardinality(available(s, ans[1])) # 1
            /\ (ans # <<>> /\ Cardinality(available(s, ans[1])) = 1) =>
                    thinks' = thinks + 1 /\ deductions' = deductions
            /\ (Len(stack') = Len(stack) /\ stack'[Len(stack)].pc = "guess") =>
                    \E after \in {todoStore(stack'[Len(stack)].s)} : Fixpoint(after)

C12_PropagationOrder == [][C12_Step]_vars

\* the first loop of a recursive call ended, after forced singles and line
\* deductions, with cells left that all have two available values or more
C12_Witness ==
    /\ Running
    /\ Top.pc = "guess"
    /\ Top.level > 0
    /\ Top.todo \in Cells
    /\ Top.s[Top.todo].source = "*"
    /\ thinks > 0
    /\ Unset(Top.s) # {}
    /\ \A p \in Unset(Top.s) : Top.s[p].failed = {} /\ Cardinality(available(Top.s, p)) >= 2

\* ------------------------------------------------------------------------
\* C13: for a cell P without a value and with available-set A, deduce(P) is A
\* minus the available-sets of the other cells without a value in P's row when
\* that has one element, else A minus those of P's column when that has one
\* element, else empty; deduced() lists, in row-major order, the cells without
\* a value that have more than one available value and a non-empty deduce(P).
\* ------------------------------------------------------------------------
Free(s, p) == Values \ ({s[q].value : q \in PeerCells[p]} \cup s[p].failed)

RowRest(s, P) ==
    Free(s, P) \ UNION {Free(s, q) : q \in {q \in Unset(s) \ {P} : q \div Side = P \div Side}}

ColRest(s, P) ==
    Free(s, P) \ UNION {Free(s, q) : q \in {q \in Unset(s) \ {P} : q % Side = P % Side}}

LineDeduction(s, P) ==
    IF Cardinality(RowRest(s, P)) = 1 THEN RowRest(s, P)
    ELSE IF Cardinality(ColRest(s, P)) = 1 THEN ColRest(s, P)
    ELSE {}

Deducible(s) ==
    {P \in Unset(s) : Cardinality(Free(s, P)) > 1 /\ LineDeduction(s, P) # {}}

C13_DeduceResult ==
    \A i \in 1 .. Len(stack) :
        \E s \in {todoStore(stack[i].s)} : \E ans \in {deduced(s)} :
            /\ \A P \in Unset(s) : deduce(s, P) = LineDeduction(s, P)
            /\ {ans[k] : k \in 1 .. Len(ans)} = Deducible(s)
            /\ \A k \in 1 .. (Len(ans) - 1) : ans[k] < ans[k + 1]

\* a board with two deducible cells, one by its row and one by its column only
C13_Witness ==
    /\ At("known")
    /\ \E s \in {todoStore(Top.s)} :
            /\ Len(deduced(s)) >= 2
            /\ \E P \in Deducible(s) : Cardinality(RowRest(s, P)) = 1
            /\ \E P \in Deducible(s) :
                    Cardinality(RowRest(s, P)) # 1 /\ Cardinality(ColRest(s, P)) = 1

\* ------------------------------------------------------------------------
\* C14: when the starting grid repeats no value in a row, column or block, the
\* board of every solve call, the root's and every deep copy's, after every
\* forced single, line deduction and guess, repeats no value in a row, column
\* or block.
\* ------------------------------------------------------------------------
C14_ConstraintInvariant ==
    NoRepeat(StartValues) =>
        \A i \in 1 .. Len(stack) : NoRepeat(BoardValues(stack[i].s))

\* a copy two guesses deep that also holds a forced single and a line deduction
C14_Witness ==
    /\ NoRepeat(StartValues)
    /\ Len(stack) >= 3
    /\ \E p \in Cells : Top.s[p].source = "="
    /\ \E p \in Cells : Top.s[p].source = "*"
    /\ \E p \in Cells : Top.s[p].source = "b"
    /\ Cardinality({p \in Cells : Top.s[p].source \in {"a", "b"}}) >= 2

\* ------------------------------------------------------------------------
\* C15: the level of every solve call is at most the number of cells without a
\* value of the starting grid; maxlevel starts at 0, is at least the level of
\* every call entered, and changes only at the entry of a call of a larger
\* level, to that level: it is the largest level entered so far.
\* ------------------------------------------------------------------------
StartUnset == Cardinality({p \in Cells : PostInit(startpos)[p].value = 0})

C15_Levels ==
    \E unset \in {StartUnset} :
        /\ maxlevel <= unset
        /\ \A i \in 1 .. Len(stack) :
                /\ stack[i].level = i - 1
                /\ stack[i].level <= unset
                /\ stack[i].pc # "enter" => stack[i].level <= maxlevel
        /\ (stack = <<>> /\ result = "none") => maxlevel = 0

C15_Entry ==
    /\ maxlevel' # maxlevel => (At("enter") /\ Top.level > maxlevel /\ maxlevel' = Top.level)
    /\ At("enter") => maxlevel' >= Top.level

C15_DepthBound == []C15_Levels /\ [][C15_Entry]_vars

\* a call just entered at a level below the largest so far, after a deeper call returned
C15_Witness ==
    /\ Running
    /\ Top.pc = "known"
    /\ Top.todo = -1
    /\ Top.level >= 1
    /\ maxlevel > Top.level
    /\ maxlevel <= StartUnset

\* ------------------------------------------------------------------------
\* C16: on the board of every solve call a cell that has a value keeps the
\* value and its provenance tag at every step, and a deep copy starts with
\* the values and tags of the board it was copied from; every board and the
\* reported grid agree with the starting string at every given position.
\* ------------------------------------------------------------------------
Kept(before, after) ==
    \A p \in Cells :
        before[p].value # 0 =>
            after[p].value = before[p].value /\ after[p].source = before[p].source

C16_Kept ==
    /\ \A i \in 1 .. Len(stack) : i <= Len(stack') => Kept(stack[i].s, stack'[i].s)
    /\ Len(stack') = Len(stack) + 1 => Kept(Top.s, stack'[Len(stack')].s)

C16_Givens ==
    \E start \in {StartValues} :
        /\ \A i \in 1 .. Len(stack) : \A p \in Cells :
                start[p] # 0 => stack[i].s[p].value = start[p] /\ stack[i].s[p].source = " "
        /\ \A i \in 1 .. Len(output) : \E g \in {GridValues(output[i].grid)} :
                \A p \in Cells : start[p] # 0 => g[p] = start[p]

C16_NeverOverwritten == []C16_Givens /\ [][C16_Kept]_vars

\* a reported grid with givens, forced singles, line deductions and guesses
C16_Witness ==
    /\ Len(output) = 1
    /\ deductions > 0
    /\ thinks > 0
    /\ guesses > 0
    /\ \E p \in Cells : StartValues[p] # 0 /\ GridValues(output[1].grid)[p] = StartValues[p]
    /\ \E p \in Cells : StartValues[p] = 0 /\ GridValues(output[1].grid)[p] # 0

\* ------------------------------------------------------------------------
\* C17: while the recursive call of a guess runs, the copy holds the tried
\* value, with a guess tag, at the position of the cell selected on the calling
\* board; within one solve call the second loop selects the same cell in every
\* iteration: failed values are recorded on no other cell without a value than
\* the cell that is, and stays, the first of todo().
\* ------------------------------------------------------------------------
TagSet == {GuessTags[k] : k \in 1 .. Len(GuessTags)}

C17_GuessCellAgreement ==
    \A i \in 1 .. Len(stack) :
        stack[i].pc \in {"guess", "call"} =>
            \E s \in {todoStore(stack[i].s)} : \E ans \in {todo(s)} :
                /\ \A p \in Unset(s) : s[p].failed # {} => p = ans[1]
                /\ stack[i].pc = "call" =>
                        /\ stack[i].todo = ans[1]
                        /\ stack[i].use \in available(s, ans[1])
                /\ (stack[i].pc = "call" /\ i < Len(stack)) =>
                        /\ stack[i + 1].s[stack[i].todo].value = stack[i].use
                        /\ stack[i + 1].s[stack[i].todo].source \in TagSet
                        /\ Unset(stack[i + 1].s) \subseteq Unset(s) \ {stack[i].todo}

\* a third guess on the same cell of a call, after two values failed on it
C17_Witness ==
    /\ Len(stack) >= 2
    /\ stack[Len(stack) - 1].pc = "call"
    /\ Top.pc = "enter"
    /\ \E cell \in {stack[Len(stack) - 1].todo} :
            /\ Cardinality(stack[Len(stack) - 1].s[cell].failed) = 2
            /\ Top.s[cell].value \notin stack[Len(stack) - 1].s[cell].failed
            /\ Top.s[cell].source = "c"

\* ------------------------------------------------------------------------
\* C18 (as stated): at every point of the execution of a solve call at level L,
\* guesses - fails equals L; at the completion report it equals the level of
\* the reporting call and the number of cells with a guess-letter tag.
\* ------------------------------------------------------------------------
TagCount(tags) == Cardinality({i \in 1 .. Len(tags) : tags[i] \in TagSet})

C18_EveryPoint ==
    /\ Running => guesses - fails = Top.level
    /\ \A i \in 1 .. Len(output) :
            output[i].guesses - output[i].fails = TagCount(output[i].tags)

\* C18 (amended): fails <= guesses always; in a solve call at level L,
\* guesses - fails equals L at every point outside a guess in progress; from
\* the count of a guess to the failed() call after its recursive call returned
\* False it is L + 1 in the calling code; after the recursive call returned
\* True it is the level of the reporting call, which is more than L. At the
\* completion report guesses - fails equals the level of the reporting call
\* and the number of cells of the reported grid with a guess-letter tag.
C18_Counters ==
    /\ fails <= guesses
    /\ (Running /\ Top.pc # "call") => guesses - fails = Top.level
    /\ (Running /\ Top.pc = "call" /\ result = "False") => guesses - fails = Top.level + 1
    /\ (Running /\ Top.pc = "call" /\ result = "True") =>
            /\ guesses - fails > Top.level
            /\ guesses - fails = output[1].guesses - output[1].fails
    /\ \A i \in 1 .. Len(output) :
            output[i].guesses - output[i].fails = TagCount(output[i].tags)

C18_Report ==
    Len(output') = Len(output) + 1 =>
        /\ guesses - fails = Top.level
        /\ TagCount(output'[Len(output')].tags) = Top.level
        /\ output'[Len(output')].guesses = guesses
        /\ output'[Len(output')].fails = fails

C18_CounterRelation == []C18_Counters /\ [][C18_Report]_vars

\* a recursive call at level 1 or deeper has returned False to its caller and
\* failed() has not counted it yet
C18_Witness ==
    /\ Running
    /\ Top.pc = "call"
    /\ result = "False"
    /\ Top.level >= 1
    /\ fails > 0
    /\ guesses - fails = Top.level + 1

\* ------------------------------------------------------------------------
\* C19: whenever solve makes a guess, the failed-set of the guessed cell has at
\* most 8 elements, so the index into the tag string is within its 11
\* characters and no guess ends in an IndexError.
\* ------------------------------------------------------------------------
C19_TagIndexInRange ==
    /\ result # "IndexError"
    /\ \A i \in 1 .. Len(stack) :
            stack[i].pc = "call" =>
                \E tried \in {Cardinality(stack[i].s[stack[i].todo].failed)} :
                    /\ tried <= 8
                    /\ tried + 1 \in DOMAIN GuessTags
                    /\ tried + Cardinality(available(stack[i].s, stack[i].todo)) <= Side

\* a guess in progress on a cell with three failed values recorded
C19_Witness ==
    /\ Len(stack) >= 2
    /\ stack[Len(stack) - 1].pc = "call"
    /\ Cardinality(stack[Len(stack) - 1].s[stack[Len(stack) - 1].todo].failed) = 3
    /\ Top.s[stack[Len(stack) - 1].todo].source = GuessTags[4]

====
